---- MODULE Spec2Model ----
(***************************************************************************)
(* Model of src/asciicast.rs: the asciicast reader (open, parse_event),    *)
(* the time and event-code codecs, the Writer and limit_idle_time.         *)
(*                                                                         *)
(* Text is a sequence of one-character strings.  Option<T> is <<>> (None)  *)
(* or <<x>> (Some(x)).  Times are u64 microsecond counts.                  *)
(***************************************************************************)
EXTENDS Integers, Sequences, FiniteSets, TLC

VARIABLES
    op, arg, res,                         \* codec: function applied, its input, its result
    prev_time, offset, limit, inp, out, idle,  \* limit_idle_time closure state and its stream
    sink, time_offset, calls,             \* Writer: destination, current writer's offset, call log
    file, reader, items, phase, pass      \* open: input lines, Reader, items pulled, position, pass

codecVars  == <<op, arg, res>>
idleVars   == <<prev_time, offset, limit, inp, out, idle>>
writerVars == <<sink, time_offset, calls>>
readerVars == <<file, reader, items, phase, pass>>
vars == <<op, arg, res, prev_time, offset, limit, inp, out, idle,
          sink, time_offset, calls, file, reader, items, phase, pass>>

(***************************************************************************)
(* Bounds of the model.                                                    *)
(***************************************************************************)
MaxFracLen == 7     \* longest fraction of an input time
MaxDigit   == 1     \* input digits are 0..MaxDigit
MaxSecs    == 2     \* largest whole-seconds part of an input time

MICROS == 1000000

(***************************************************************************)
(* Text helpers.                                                           *)
(***************************************************************************)
DigitChars == <<"0", "1", "2", "3", "4", "5", "6", "7", "8", "9">>

IsDigit(c) == \E d \in 1..10 : DigitChars[d] = c

DigitVal(c) == (CHOOSE d \in 1..10 : DigitChars[d] = c) - 1

RECURSIVE NatToText(_)
\* Display of an unsigned integer
NatToText(n) == IF n < 10 THEN <<DigitChars[n + 1]>>
                ELSE Append(NatToText(n \div 10), DigitChars[(n % 10) + 1])

RECURSIVE DigitsToNat(_)
DigitsToNat(s) == IF s = <<>> THEN 0
                  ELSE 10 * DigitsToNat(SubSeq(s, 1, Len(s) - 1)) + DigitVal(s[Len(s)])

Ok(v)  == [ok |-> TRUE, val |-> v, err |-> ""]
Err(e) == [ok |-> FALSE, val |-> <<>>, err |-> e]

\* str::parse::<u64>() for texts short enough not to overflow
ParseU64(s) ==
    IF s = <<>> THEN Err("cannot parse integer from empty string")
    ELSE IF \E i \in 1..Len(s) : ~IsDigit(s[i]) THEN Err("invalid digit found in string")
    ELSE Ok(DigitsToNat(s))

RECURSIVE Split(_, _)
\* str::split(c): the pieces between occurrences of c
Split(s, c) ==
    IF \A i \in 1..Len(s) : s[i] # c THEN <<s>>
    ELSE LET i == CHOOSE j \in 1..Len(s) : s[j] = c /\ \A k \in 1..(j - 1) : s[k] # c
         IN  <<SubSeq(s, 1, i - 1)>> \o Split(SubSeq(s, i + 1, Len(s)), c)

RECURSIVE TrimEndMatches(_, _)
\* str::trim_end_matches(c)
TrimEndMatches(s, c) ==
    IF s # <<>> /\ s[Len(s)] = c THEN TrimEndMatches(SubSeq(s, 1, Len(s) - 1), c) ELSE s

RECURSIVE PadLeft(_, _, _)
\* format!("{:c>n}")
PadLeft(s, c, n) == IF Len(s) >= n THEN s ELSE PadLeft(<<c>> \o s, c, n)

RECURSIVE PadRight(_, _, _)
\* format!("{:c<n}")
PadRight(s, c, n) == IF Len(s) >= n THEN s ELSE PadRight(Append(s, c), c, n)

Min(a, b) == IF a < b THEN a ELSE b

(***************************************************************************)
(* JSON numbers.  A serde_json::Value number is modelled by the text it was *)
(* parsed from; values keep at most 15 significant digits, so the f64 and  *)
(* its shortest round-trip rendering are determined by the decimal digits. *)
(***************************************************************************)
AllDigits(s) == \A i \in 1..Len(s) : IsDigit(s[i])

\* the JSON grammar of an unsigned number without exponent:
\* int = "0" / digit1-9 *DIGIT, frac = "." 1*DIGIT
IsJsonUnsigned(s) ==
    LET p == Split(s, ".")
    IN  /\ Len(p) \in {1, 2}
        /\ p[1] # <<>> /\ AllDigits(p[1])
        /\ (Len(p[1]) > 1 => p[1][1] # "0")
        /\ (Len(p) = 2 => p[2] # <<>> /\ AllDigits(p[2]))

IsJsonNumber(s) ==
    IF s # <<>> /\ s[1] = "-" THEN IsJsonUnsigned(Tail(s)) ELSE IsJsonUnsigned(s)

\* f64::to_string of the number a valid JSON number text denotes: the digits
\* without trailing fraction zeros, and no decimal point for a whole number
F64ToString(s) ==
    LET p == Split(s, ".")
        frac == IF Len(p) = 2 THEN TrimEndMatches(p[2], "0") ELSE <<>>
    IN  IF frac = <<>> THEN p[1] ELSE p[1] \o <<".">> \o frac

\* serde_json::Value: <<"number", text>>, <<"string", text>> or <<"null">>.
\* Value::as_f64().map(|v| v.to_string()).unwrap_or_default()
ValueToString(value) == IF value[1] = "number" THEN F64ToString(value[2]) ELSE <<>>

(***************************************************************************)
(* deserialize_time                                                        *)
(***************************************************************************)
PadMicrosLeft(right) == PadLeft(SubSeq(right, 1, Min(6, Len(right))), "0", 6)

PadMicros(right) == PadRight(SubSeq(right, 1, Min(6, Len(right))), "0", 6)

deserialize_time(value) ==
    LET string == ValueToString(value)
        parts  == Split(string, ".")
    IN  IF Len(parts) = 2
        THEN LET secs   == ParseU64(parts[1])
                 micros == ParseU64(PadMicros(parts[2]))
             IN  IF ~secs.ok THEN Err(secs.err)
                 ELSE IF ~micros.ok THEN Err(micros.err)
                 ELSE Ok(secs.val * MICROS + micros.val)
        ELSE Err("invalid time format")

(***************************************************************************)
(* EventCode, deserialize_code and Display                                 *)
(***************************************************************************)
Output == <<"Output">>
Input  == <<"Input">>
Resize == <<"Resize">>
Marker == <<"Marker">>
Other(c) == <<"Other", c>>

\* A JSON string token: the text it denotes and whether its source text uses
\* an escape sequence.  <&str as Deserialize>::deserialize borrows from the
\* input; serde_json can lend a string only when it has no escape sequence
\* and otherwise fails with "invalid type: string, expected a borrowed string".
DeserializeBorrowedStr(token) ==
    IF token.escaped THEN Err("invalid type: string, expected a borrowed string")
    ELSE Ok(token.text)

MatchCode(value) ==
    IF value = <<"o">> THEN Ok(Output)
    ELSE IF value = <<"i">> THEN Ok(Input)
    ELSE IF value = <<"r">> THEN Ok(Resize)
    ELSE IF value = <<"m">> THEN Ok(Marker)
    ELSE IF value = <<>> THEN Err("missing event code")
    ELSE Ok(Other(value[1]))

deserialize_code(token) ==
    LET value == DeserializeBorrowedStr(token)
    IN  IF ~value.ok THEN Err(value.err) ELSE MatchCode(value.val)

\* impl Display for EventCode
CodeToString(code) ==
    IF code = Output THEN <<"o">>
    ELSE IF code = Input THEN <<"i">>
    ELSE IF code = Resize THEN <<"r">>
    ELSE IF code = Marker THEN <<"m">>
    ELSE <<code[2]>>

(***************************************************************************)
(* Variables that a specification does not use stay parked.                *)
(***************************************************************************)
ParkCodec  == op = "none" /\ arg = <<>> /\ res = <<>>
ParkIdle   == /\ prev_time = 0 /\ offset = 0 /\ limit = 0
              /\ inp = <<>> /\ out = <<>> /\ idle = "parked"
ParkWriter == sink = <<>> /\ time_offset = 0 /\ calls = <<>>
ParkReader == file = <<>> /\ reader = <<>> /\ items = <<>> /\ phase = "parked" /\ pass = 0

(***************************************************************************)
(* SpecCodec: the two field decoders applied to bounded inputs.            *)
(***************************************************************************)
InDigitChars == {DigitChars[d + 1] : d \in 0..MaxDigit}

Fractions == UNION {[1..n -> InDigitChars] : n \in 0..MaxFracLen}

NumberTexts ==
    {sign \o NatToText(s) \o (IF f = <<>> THEN <<>> ELSE <<".">> \o f) :
        sign \in {<<>>, <<"-">>}, s \in 0..MaxSecs, f \in Fractions}

TimeValues == {<<"number", t>> : t \in NumberTexts} \cup {<<"string", <<"1", ".", "5">>>>, <<"null">>}

CodeChars == {"o", "i", "r", "m", "x", "\""}

MaxCodeLen == 2

MustEscape(text) == \E i \in 1..Len(text) : text[i] \in {"\"", "\\"}

\* JSON string tokens: a text with a quote is always written with an escape,
\* any other non-empty text may be (o denotes o)
CodeTokens ==
    {[text |-> t, escaped |-> e] :
        t \in UNION {[1..n -> CodeChars] : n \in 0..MaxCodeLen}, e \in BOOLEAN}

ValidToken(tok) == /\ (MustEscape(tok.text) => tok.escaped)
                   /\ (tok.text = <<>> => ~tok.escaped)

InitCodec ==
    /\ op = "none" /\ res = <<>>
    /\ \/ \E v \in TimeValues : arg = <<"time", v>>
       \/ \E t \in CodeTokens : ValidToken(t) /\ arg = <<"code", t>>
    /\ ParkIdle /\ ParkWriter /\ ParkReader

DeserializeTime ==
    /\ op = "none" /\ arg[1] = "time"
    /\ op' = "deserialize_time"
    /\ res' = deserialize_time(arg[2])
    /\ UNCHANGED <<arg, idleVars, writerVars, readerVars>>

DeserializeCode ==
    /\ op = "none" /\ arg[1] = "code"
    /\ op' = "deserialize_code"
    /\ res' = deserialize_code(arg[2])
    /\ UNCHANGED <<arg, idleVars, writerVars, readerVars>>

\* event.code.to_string() on a decoded code
DisplayCode ==
    /\ op = "deserialize_code" /\ res.ok
    /\ op' = "to_string"
    /\ res' = CodeToString(res.val)
    /\ UNCHANGED <<arg, idleVars, writerVars, readerVars>>

NextCodec == DeserializeTime \/ DeserializeCode \/ DisplayCode

SpecCodec == InitCodec /\ [][NextCodec]_vars

RECURSIVE Pow10(_)
Pow10(n) == IF n = 0 THEN 1 ELSE 10 * Pow10(n - 1)

DotAt(s) == CHOOSE i \in 1..Len(s) : s[i] = "."

HasDot(s) == \E i \in 1..Len(s) : s[i] = "."

\* the i-th fraction digit of a rendering int.frac, 0 past its end
FracDigit(s, i) == IF DotAt(s) + i <= Len(s) THEN DigitVal(s[DotAt(s) + i]) ELSE 0

TruncatedMicros(s) ==
    FracDigit(s, 1) * Pow10(5) + FracDigit(s, 2) * Pow10(4) + FracDigit(s, 3) * Pow10(3)
        + FracDigit(s, 4) * Pow10(2) + FracDigit(s, 5) * Pow10(1) + FracDigit(s, 6)

IsTimeArg == arg # <<>> /\ arg[1] = "time"

NonNegNumber == IsTimeArg /\ arg[2][1] = "number" /\ arg[2][2][1] # "-"

ExpectedCode(c) ==
    IF c = "o" THEN Output ELSE IF c = "i" THEN Input
    ELSE IF c = "r" THEN Resize ELSE IF c = "m" THEN Marker ELSE Other(c)

\* C8: every one-character event code decodes (o, i, r, m to the named codes,
\* any other character c to Other(c), never Other of o, i, r, m) and renders
\* back to itself; the empty code fails with "missing event code"
C8_CodeRoundTrip ==
    /\ (op = "deserialize_code" /\ Len(arg[2].text) = 1) =>
            res.ok /\ res.val = ExpectedCode(arg[2].text[1])
    /\ (op = "deserialize_code" /\ Len(arg[2].text) = 1 /\ res.ok /\ res.val[1] = "Other") =>
            res.val[2] \notin {"o", "i", "r", "m"}
    /\ (op = "deserialize_code" /\ arg[2].text = <<>>) =>
            ~res.ok /\ res.err = "missing event code"
    /\ (op = "to_string" /\ Len(arg[2].text) = 1) => res = arg[2].text

(***************************************************************************)
(* Events and stream items.  An item of the event sequence is Ok(event) or *)
(* Err(message).                                                           *)
(***************************************************************************)
Event(time, code, data) == [time |-> time, code |-> code, data |-> data]

\* Event::output(time, data): data, already UTF-8 text, is kept as is
EventOutput(time, data) == Event(time, Output, data)

(***************************************************************************)
(* limit_idle_time: the closure applied to one item of the stream.  The    *)
(* subtraction event.time - prev_time of a time smaller than prev_time     *)
(* overflows: a debug build panics and a release build wraps around; both  *)
(* end the modelled run in the state "underflow".                          *)
(***************************************************************************)
MaxEvents    == 3    \* items fed to limit_idle_time
MaxTime      == 5    \* largest event time (microseconds)
MaxLimitHalf == 5    \* largest limit, in half microseconds

\* limit is given in seconds as an f64; (limit * 1_000_000.0) as u64 truncates
\* toward zero and saturates at 0.  h is the limit in half microseconds.
LimitToMicros(h) == IF h <= 0 THEN 0 ELSE h \div 2

IdleCodes == {Output, Input}

IdleItems ==
    {Ok(Event(t, c, "d")) : t \in 0..MaxTime, c \in IdleCodes} \cup {Err("decode error")}

InitIdle ==
    /\ \E h \in (-1)..MaxLimitHalf : limit = LimitToMicros(h)
    /\ prev_time = 0 /\ offset = 0
    /\ inp = <<>> /\ out = <<>> /\ idle = "running"
    /\ ParkCodec /\ ParkWriter /\ ParkReader

NewOffsetReset(delay, off, lim) == IF delay > lim THEN delay - lim ELSE off

NewOffset(delay, off, lim) == IF delay > lim THEN off + (delay - lim) ELSE off

LimitIdleTimeNext(item) ==
    /\ idle = "running" /\ Len(inp) < MaxEvents
    /\ inp' = Append(inp, item)
    /\ IF ~item.ok
       THEN /\ out' = Append(out, item)
            /\ UNCHANGED <<prev_time, offset, idle>>
       ELSE IF item.val.time < prev_time
       THEN /\ idle' = "underflow"
            /\ UNCHANGED <<prev_time, offset, out>>
       ELSE LET delay == item.val.time - prev_time
                off   == NewOffset(delay, offset, limit)
            IN  /\ offset' = off
                /\ prev_time' = item.val.time
                /\ IF item.val.time < off
                   THEN idle' = "underflow" /\ out' = out
                   ELSE /\ out' = Append(out, Ok(Event(item.val.time - off, item.val.code, item.val.data)))
                        /\ idle' = idle
    /\ UNCHANGED <<limit, codecVars, writerVars, readerVars>>

NextIdle == \E item \in IdleItems : LimitIdleTimeNext(item)

SpecIdle == InitIdle /\ [][NextIdle]_vars

\* the Ok events among the first k items of a stream
RECURSIVE OkTimes(_, _)
OkTimes(s, k) ==
    IF k = 0 THEN <<>>
    ELSE IF s[k].ok THEN Append(OkTimes(s, k - 1), s[k].val.time) ELSE OkTimes(s, k - 1)

NonDecreasing(ts) == \A i \in 1..(Len(ts) - 1) : ts[i] <= ts[i + 1]

Gap(ts, i) == IF i = 1 THEN ts[1] ELSE ts[i] - ts[i - 1]

RECURSIVE CappedSum(_, _, _)
\* the sum over i <= k of min(gap_i, lim)
CappedSum(ts, k, lim) ==
    IF k = 0 THEN 0 ELSE CappedSum(ts, k - 1, lim) + Min(Gap(ts, k), lim)

\* C4: on non-decreasing input times the k-th event leaves with time
\* sum over i <= k of min(gap_i, L); so every output gap (also the one from 0
\* to the first event) is at most L and a gap that was at most L is unchanged
C4_IdleCapping ==
    LET ts == OkTimes(inp, Len(inp))
        os == OkTimes(out, Len(out))
    IN  (idle = "running" /\ NonDecreasing(ts)) =>
            /\ Len(os) = Len(ts)
            /\ \A k \in 1..Len(os) :
                /\ os[k] = CappedSum(ts, k, limit)
                /\ Gap(os, k) <= limit
                /\ (Gap(ts, k) <= limit => Gap(os, k) = Gap(ts, k))

\* two idle periods longer than the limit, both capped
C4_Witness ==
    LET ts == OkTimes(inp, Len(inp))
        os == OkTimes(out, Len(out))
    IN  /\ idle = "running" /\ Len(ts) = 3 /\ limit = 1
        /\ Gap(ts, 2) > limit /\ Gap(ts, 3) > limit /\ Gap(ts, 1) = 1
        /\ os = <<1, 2, 3>>

Last(s) == s[Len(s)]

\* the state part of C10
IdleInv ==
    LET ts == OkTimes(inp, Len(inp))
        os == OkTimes(out, Len(out))
    IN  NonDecreasing(ts) =>
            /\ idle = "running"
            /\ offset <= prev_time
            /\ Len(out) = Len(inp)
            /\ NonDecreasing(os)
            /\ \A k \in 1..Len(inp) :
                /\ out[k].ok = inp[k].ok
                /\ (~inp[k].ok => out[k] = inp[k])
                /\ (inp[k].ok =>
                        /\ out[k].val.time <= inp[k].val.time
                        /\ out[k].val.code = inp[k].val.code
                        /\ out[k].val.data = inp[k].val.data)

\* the step part of C10
IdleStep ==
    (NonDecreasing(OkTimes(inp', Len(inp'))) /\ Len(inp') = Len(inp) + 1) =>
        /\ offset' >= offset
        /\ (~Last(inp').ok => prev_time' = prev_time /\ offset' = offset /\ Last(out') = Last(inp'))
        /\ (Last(inp').ok => prev_time' = Last(inp').val.time)

\* C10: while the Ok times are non-decreasing, offset <= prev_time and offset
\* never decreases, no subtraction underflows, every output time is at most
\* its input time, output times are non-decreasing, the number of items and
\* every code and data are unchanged, and Err items pass through without
\* changing prev_time or offset
C10_IdleInvariant == [](IdleInv) /\ [][IdleStep]_vars

C10_Witness ==
    /\ idle = "running" /\ Len(inp) = 3 /\ NonDecreasing(OkTimes(inp, 3))
    /\ inp[1].ok /\ ~inp[2].ok /\ inp[3].ok
    /\ offset > 0 /\ offset = prev_time
    /\ out[3].val.time < inp[3].val.time

(***************************************************************************)
(* Header, V2Header and the header line.  A JSON object is the sequence of *)
(* its <<key, value>> entries in textual order.  The value of timestamp,   *)
(* a number or null, is kept as an Option (null is None).                  *)
(***************************************************************************)
None == <<>>
Some(x) == <<x>>

Header(version, cols, rows, timestamp, idle_time_limit, command, title, env) ==
    [version |-> version, cols |-> cols, rows |-> rows, timestamp |-> timestamp,
     idle_time_limit |-> idle_time_limit, command |-> command, title |-> title, env |-> env]

V2Header(version, width, height, timestamp, idle_time_limit, command, title, env) ==
    [version |-> version, width |-> width, height |-> height, timestamp |-> timestamp,
     idle_time_limit |-> idle_time_limit, command |-> command, title |-> title, env |-> env]

\* impl From<&Header> for V2Header
V2HeaderFromHeader(header) ==
    V2Header(2, header.cols, header.rows, header.timestamp, header.idle_time_limit,
             header.command, header.title, header.env)

\* an env map is the set of its <<key, value>> pairs
EnvEntryAlways(env) == IF env # None THEN <<<<"env", env[1]>>>> ELSE <<>>

EnvEntry(env) == IF env # None /\ env[1] # {} THEN <<<<"env", env[1]>>>> ELSE <<>>

OptEntry(key, opt) == IF opt # None THEN <<<<key, opt[1]>>>> ELSE <<>>

\* impl Serialize for V2Header: the entries of the map, in emission order
SerializeV2Header(h) ==
    <<<<"version", h.version>>, <<"width", h.width>>, <<"height", h.height>>,
      <<"timestamp", h.timestamp>>>>
        \o OptEntry("idle_time_limit", h.idle_time_limit)
        \o OptEntry("command", h.command)
        \o OptEntry("title", h.title)
        \o EnvEntry(h.env)

(***************************************************************************)
(* Event lines.  A line of the file is a tuple tagged with its shape:      *)
(*   <<"object", entries>>            a JSON object                        *)
(*   <<"array", time, code, data>>    [time, code, data]: the text of the  *)
(*                                    time, the code's string token, data  *)
(*   <<"part", doc, i, n>>            the i-th of n >= 2 pieces of the text *)
(*                                    of the JSON object doc               *)
(*   <<"empty">>, <<"space">>, <<"garbage">>, <<"ioerror">>                *)
(***************************************************************************)
format_time(time) ==
    NatToText(time \div MICROS) \o <<".">> \o PadLeft(NatToText(time % MICROS), "0", 6)

\* serde_json::to_string of a string: the token, escaped where JSON requires
JsonString(text) == [text |-> text, escaped |-> MustEscape(text)]

serialize_event(event) ==
    <<"array", TrimEndMatches(format_time(event.time), "0"),
      JsonString(CodeToString(event.code)), event.data>>

(***************************************************************************)
(* Writer.  The sink is an in-memory buffer that outlives the writers      *)
(* appending to it; every writeln! reaches it (LineWriter flushes at the   *)
(* newline).  calls logs Writer::new(offset), write_header(header) and     *)
(* write_event(event) in call order.                                       *)
(***************************************************************************)
MaxWrites  == 3     \* write_header / write_event calls
MaxWriters == 2     \* writers constructed on the sink

WriterEvents ==
    {Event(0, Output, "a"), Event(1, Other("x"), "b"),
     Event(1000001, Output, "c"), Event(1999999, Input, "d")}

Envs == {None, Some({}), Some({<<"TERM", "xterm">>})}

AllHeaders ==
    {Header(v, cols, 24, ts, il, cmd, ti, env) :
        v \in {1, 2}, cols \in {80, 100}, ts \in {None, Some(1704719152)}, il \in {None, Some(2)},
        cmd \in {None, Some("sh")}, ti \in {None, Some("Demo")}, env \in Envs}

FewHeaders == {Header(2, 80, 24, None, None, None, None, None)}

NewCalls  == SelectSeq(calls, LAMBDA c : c[1] = "new")
WriteCalls == SelectSeq(calls, LAMBDA c : c[1] # "new")

\* the numeral of a written time, read as a count of microseconds
NumeralMicros(text) ==
    LET p == Split(text, ".")
    IN  DigitsToNat(p[1]) * MICROS + DigitsToNat(PadRight(p[2], "0", 6))

\* the last time written to the sink, 0 without events: the offset a caller
\* gives a writer that continues the timeline
LastTimeWritten ==
    IF sink # <<>> /\ Last(sink)[1] = "array" THEN NumeralMicros(Last(sink)[2]) ELSE 0

InitWriter ==
    /\ sink = <<>>
    /\ time_offset = 0
    /\ calls = <<<<"new", 0>>>>
    /\ ParkCodec /\ ParkIdle /\ ParkReader

\* Writer::new(sink, time_offset), appending to what the sink holds
WriterNew(off) ==
    /\ Len(NewCalls) < MaxWriters
    /\ time_offset' = off
    /\ calls' = Append(calls, <<"new", off>>)
    /\ UNCHANGED <<sink, codecVars, idleVars, readerVars>>

WriteHeader(header) ==
    /\ sink' = Append(sink, <<"object", SerializeV2Header(V2HeaderFromHeader(header))>>)
    /\ calls' = Append(calls, <<"header", header>>)
    /\ UNCHANGED <<time_offset, codecVars, idleVars>>

OffsetTimeDropped(time, off) == time

OffsetTime(time, off) == time + off

WriteEvent(event) ==
    /\ sink' = Append(sink, serialize_event(Event(OffsetTime(event.time, time_offset), event.code, event.data)))
    /\ calls' = Append(calls, <<"event", event, time_offset>>)
    /\ UNCHANGED <<time_offset, codecVars, idleVars>>

WriterWriteHeader ==
    /\ Len(sink) < MaxWrites
    /\ \E h \in FewHeaders : WriteHeader(h)
    /\ UNCHANGED readerVars

WriterWriteEvent ==
    /\ Len(sink) < MaxWrites
    /\ \E e \in WriterEvents : WriteEvent(e)
    /\ UNCHANGED readerVars

WriterNewCall == \E off \in {0, 1, LastTimeWritten} : WriterNew(off)

NextWriter == WriterNewCall \/ WriterWriteHeader \/ WriterWriteEvent

SpecWriter == InitWriter /\ [][NextWriter]_vars

\* the number of Writer::new calls before the k-th write call
RECURSIVE WriterOf(_, _)
WriterOf(cs, k) ==
    IF cs = <<>> THEN 0
    ELSE IF Last(cs)[1] = "new" THEN WriterOf(SubSeq(cs, 1, Len(cs) - 1), k)
    ELSE IF Len(SelectSeq(cs, LAMBDA c : c[1] # "new")) = k
         THEN Len(SelectSeq(cs, LAMBDA c : c[1] = "new"))
         ELSE WriterOf(SubSeq(cs, 1, Len(cs) - 1), k)

IsEventCall(k) == WriteCalls[k][1] = "event"

MaxHeaderLines == 1

HeaderWriteHeader ==
    /\ Len(sink) < MaxHeaderLines
    /\ \E h \in AllHeaders : WriteHeader(h)
    /\ UNCHANGED readerVars

NextHeader == HeaderWriteHeader

SpecHeader == InitWriter /\ [][NextHeader]_vars

Keys(obj) == [i \in 1..Len(obj) |-> obj[i][1]]

HasKey(obj, key) == \E i \in 1..Len(obj) : obj[i][1] = key

Get(obj, key) == obj[CHOOSE i \in 1..Len(obj) : obj[i][1] = key][2]

KeyOrder == <<"version", "width", "height", "timestamp", "idle_time_limit", "command", "title", "env">>

\* s is KeyOrder with some keys left out
IsSubOrder(s) ==
    /\ \A i \in 1..Len(s) : \E p \in 1..Len(KeyOrder) : KeyOrder[p] = s[i]
    /\ \A i, j \in 1..Len(s) : i < j =>
          (CHOOSE p \in 1..Len(KeyOrder) : KeyOrder[p] = s[i])
              < (CHOOSE p \in 1..Len(KeyOrder) : KeyOrder[p] = s[j])

\* C6: write_header emits one line with the keys version, width, height,
\* timestamp, idle_time_limit, command, title, env in this order; version is
\* 2, width and height are cols and rows, timestamp is always there (null when
\* absent); idle_time_limit, command and title are there exactly when present,
\* env exactly when present and not empty
C6_HeaderEncoding ==
    \A k \in 1..Len(WriteCalls) :
        WriteCalls[k][1] = "header" =>
            LET h == WriteCalls[k][2]
                o == sink[k][2]
            IN  /\ Len(sink) = Len(WriteCalls)
                /\ sink[k][1] = "object"
                /\ IsSubOrder(Keys(o))
                /\ SubSeq(Keys(o), 1, 4) = SubSeq(KeyOrder, 1, 4)
                /\ Get(o, "version") = 2
                /\ Get(o, "width") = h.cols /\ Get(o, "height") = h.rows
                /\ HasKey(o, "timestamp") /\ Get(o, "timestamp") = h.timestamp
                /\ HasKey(o, "idle_time_limit") <=> h.idle_time_limit # None
                /\ HasKey(o, "idle_time_limit") => Get(o, "idle_time_limit") = h.idle_time_limit[1]
                /\ HasKey(o, "command") <=> h.command # None
                /\ HasKey(o, "command") => Get(o, "command") = h.command[1]
                /\ HasKey(o, "title") <=> h.title # None
                /\ HasKey(o, "title") => Get(o, "title") = h.title[1]
                /\ HasKey(o, "env") <=> (h.env # None /\ h.env[1] # {})
                /\ HasKey(o, "env") => Get(o, "env") = h.env[1]

\* a header with a present but empty env, a title and nothing else optional
C6_Witness ==
    /\ Len(sink) = 1 /\ WriteCalls[1][1] = "header"
    /\ WriteCalls[1][2].env = Some({}) /\ WriteCalls[1][2].title # None
    /\ WriteCalls[1][2].command = None /\ WriteCalls[1][2].version = 1
    /\ Keys(sink[1][2]) = <<"version", "width", "height", "timestamp", "title">>

(***************************************************************************)
(* Reader: open and the event sequence it returns.                         *)
(***************************************************************************)
OptGet(obj, key) == IF HasKey(obj, key) THEN Some(Get(obj, key)) ELSE None

\* the timestamp entry: absent and null both give None
OptTimestamp(obj) == IF HasKey(obj, "timestamp") THEN Get(obj, "timestamp") ELSE None

\* serde_json::from_str::<V2Header>(line): the line must be one whole JSON
\* object with version, width and height; the other fields are optional and
\* unknown keys are ignored
DeserializeV2Header(line) ==
    IF line[1] # "object" THEN Err("not a V2Header")
    ELSE LET o == line[2]
         IN  IF ~(HasKey(o, "version") /\ HasKey(o, "width") /\ HasKey(o, "height"))
             THEN Err("missing field")
             ELSE Ok(V2Header(Get(o, "version"), Get(o, "width"), Get(o, "height"),
                              OptTimestamp(o), OptGet(o, "idle_time_limit"),
                              OptGet(o, "command"), OptGet(o, "title"), OptGet(o, "env")))

\* impl From<V2Header> for Header
HeaderFromV2Header(h) ==
    Header(2, h.width, h.height, None, None, h.command, h.title, h.env)

\* impl From<&V1> for Header
HeaderFromV1(h) ==
    Header(1, h.width, h.height, None, None, h.command, h.title, h.env)

\* the time field of an event or of a stdout entry: a JSON number, decoded by
\* deserialize_time
DeserializeTimeField(text) ==
    IF ~IsJsonNumber(text) THEN Err("invalid number") ELSE deserialize_time(<<"number", text>>)

\* serde_json::from_str::<Event>(line)
DeserializeEvent(line) ==
    IF line[1] # "array" THEN Err("not an Event")
    ELSE LET time == DeserializeTimeField(line[2])
             code == deserialize_code(line[3])
         IN  IF ~time.ok THEN Err(time.err)
             ELSE IF ~code.ok THEN Err(code.err)
             ELSE Ok(Event(time.val, code.val, line[4]))

parse_eventBlankIsError(line) ==
    IF line[1] = "ioerror" THEN Some(Err("io error")) ELSE Some(DeserializeEvent(line))

\* parse_event: None for an empty line, otherwise Some(item)
parse_event(line) ==
    IF line[1] = "ioerror" THEN Some(Err("io error"))
    ELSE IF line[1] = "empty" THEN None
    ELSE Some(DeserializeEvent(line))

\* once(first_line).chain(lines).collect::<io::Result<String>>() followed by
\* serde_json::from_str: the lines, joined without their line ends, must be
\* the text of one JSON object
JoinedDocument(lines) ==
    LET text == SelectSeq(lines, LAMBDA l : l[1] \notin {"empty", "space"})
    IN  IF \E i \in 1..Len(lines) : lines[i][1] = "ioerror" THEN Err("io error")
        ELSE IF Len(text) = 1 /\ text[1][1] = "object" THEN Ok(text[1][2])
        ELSE IF /\ Len(text) >= 2
                /\ \A i \in 1..Len(text) :
                      /\ text[i][1] = "part" /\ text[i][3] = i /\ text[i][4] = Len(text)
                      /\ text[i][2] = text[1][2]
        THEN Ok(text[1][2])
        ELSE Err("syntax error")

RECURSIVE DeserializeStdout(_)
\* Vec<V1Stdout>: every entry <<time, data>> must decode
DeserializeStdout(entries) ==
    IF entries = <<>> THEN Ok(<<>>)
    ELSE LET time == DeserializeTimeField(entries[1][1])
             rest == DeserializeStdout(Tail(entries))
         IN  IF ~time.ok THEN Err(time.err)
             ELSE IF ~rest.ok THEN Err(rest.err)
             ELSE Ok(<<[time |-> time.val, data |-> entries[1][2]]>> \o rest.val)

\* serde_json::from_str::<V1>(json)
DeserializeV1(o) ==
    IF ~(HasKey(o, "version") /\ HasKey(o, "width") /\ HasKey(o, "height") /\ HasKey(o, "stdout"))
    THEN Err("missing field")
    ELSE LET stdout == DeserializeStdout(Get(o, "stdout"))
         IN  IF ~stdout.ok THEN Err(stdout.err)
             ELSE Ok([version |-> Get(o, "version"), width |-> Get(o, "width"),
                      height |-> Get(o, "height"), command |-> OptGet(o, "command"),
                      title |-> OptGet(o, "title"), env |-> OptGet(o, "env"),
                      stdout |-> stdout.val])

NoReader == <<>>
Failed(e) == [ok |-> FALSE, err |-> e, header |-> <<>>, kind |-> "none", rest |-> <<>>]
\* Reader { header, events }: events streams over the remaining lines
\* (kind "stream") or holds the materialised items (kind "list")
Reader(header, kind, rest) ==
    [ok |-> TRUE, err |-> "", header |-> header, kind |-> kind, rest |-> rest]

open(lines) ==
    IF lines = <<>> THEN Failed("empty file")
    ELSE IF lines[1][1] = "ioerror" THEN Failed("io error")
    ELSE LET v2 == DeserializeV2Header(lines[1])
         IN  IF v2.ok
             THEN IF v2.val.version # 2 THEN Failed("unsupported asciicast version")
                  ELSE Reader(HeaderFromV2Header(v2.val), "stream", Tail(lines))
             ELSE LET json == JoinedDocument(lines)
                      v1 == IF json.ok THEN DeserializeV1(json.val) ELSE Err(json.err)
                  IN  IF ~v1.ok THEN Failed(v1.err)
                      ELSE IF v1.val.version # 1 THEN Failed("unsupported asciicast version")
                      ELSE Reader(HeaderFromV1(v1.val), "list",
                                  [i \in 1..Len(v1.val.stdout) |->
                                      Ok(EventOutput(v1.val.stdout[i].time, v1.val.stdout[i].data))])

\* the lines a filter_map(parse_event) consumes to produce its next item:
\* those mapped to None and the first one mapped to Some
RECURSIVE Skipped(_)
Skipped(lines) ==
    IF lines = <<>> THEN 0
    ELSE IF parse_event(lines[1]) # None THEN 0
    ELSE 1 + Skipped(Tail(lines))

Open ==
    /\ phase = "start"
    /\ reader' = open(file)
    /\ phase' = IF reader'.ok THEN "opened" ELSE "failed"
    /\ UNCHANGED <<file, items, pass, codecVars, idleVars>>

\* reader.events.next()
EventsNext ==
    /\ phase = "opened"
    /\ IF reader.kind = "list"
       THEN IF reader.rest = <<>>
            THEN phase' = "eof" /\ UNCHANGED <<reader, items>>
            ELSE /\ items' = Append(items, Head(reader.rest))
                 /\ reader' = [reader EXCEPT !.rest = Tail(reader.rest)]
                 /\ phase' = phase
       ELSE LET n == Skipped(reader.rest)
            IN  IF n = Len(reader.rest)
                THEN /\ phase' = "eof"
                     /\ reader' = [reader EXCEPT !.rest = <<>>]
                     /\ items' = items
                ELSE /\ items' = Append(items, parse_event(reader.rest[n + 1])[1])
                     /\ reader' = [reader EXCEPT !.rest = SubSeq(reader.rest, n + 2, Len(reader.rest))]
                     /\ phase' = phase
    /\ UNCHANGED <<file, pass, codecVars, idleVars>>

(***************************************************************************)
(* SpecReader: open applied to bounded files, and its events pulled to the  *)
(* end.                                                                    *)
(***************************************************************************)
MaxLines  == 3      \* lines after the header of a version-2 file
MaxParts  == 3      \* lines a legacy document is broken into
MaxStdout == 2      \* stdout entries of a legacy document

Array(time, code, data) == <<"array", time, code, data>>

Plain(text) == [text |-> text, escaped |-> FALSE]

ReaderLines ==
    {<<"empty">>, <<"space">>, <<"garbage">>, <<"ioerror">>,
     Array(<<"0", ".", "5">>, Plain(<<"o">>), "a"),
     Array(<<"1", ".", "0">>, Plain(<<"o">>), "b"),
     Array(<<"2", ".", "2", "5">>, Plain(<<>>), "c"),
     Array(<<"3", ".", "0", "0", "0", "0", "0", "1">>, Plain(<<"x">>), "d")}

LinesUpTo(palette, n) == UNION {[1..k -> palette] : k \in 0..n}

V2HeaderLines ==
    {<<"object", SerializeV2Header(V2Header(v, 80, 24, ts, il, cmd, None, env))>> :
        v \in {2, 3}, ts \in {None, Some(1704719152)}, il \in {None, Some(2)},
        cmd \in {None, Some("sh")}, env \in {None, Some({<<"TERM", "xterm">>})}}

PlainV2HeaderLine == <<"object", SerializeV2Header(V2Header(2, 80, 24, None, None, None, None, None))>>

V1Entries ==
    {<<<<"1", ".", "2", "3">>, "hello">>, <<<<"0", ".", "0", "0", "0", "0", "0", "1">>, "a">>,
     <<<<"1", "0", ".", "5">>, "b">>, <<<<"2">>, "c">>}

V1Docs ==
    {<<<<"version", v>>, <<"width", 100>>, <<"height", 50>>>> \o OptEntry("command", cmd)
            \o <<<<"stdout", so>>>> :
        v \in {1, 2}, cmd \in {None, Some("sh")}, so \in LinesUpTo(V1Entries, MaxStdout)}

\* the text of doc broken into n lines
Layout(doc, n) ==
    IF n = 1 THEN <<<<"object", doc>>>> ELSE [i \in 1..n |-> <<"part", doc, i, n>>]

ReaderFiles ==
    {<<>>}
        \cup {<<h>> : h \in V2HeaderLines}
        \cup {<<PlainV2HeaderLine>> \o ls : ls \in LinesUpTo(ReaderLines, MaxLines)}
        \cup {Layout(d, n) : d \in V1Docs, n \in 1..MaxParts}
        \cup {Layout(d, 1) \o <<<<"empty">>>> : d \in V1Docs}

InitReader ==
    /\ file \in ReaderFiles
    /\ reader = NoReader /\ items = <<>> /\ phase = "start" /\ pass = 1
    /\ ParkCodec /\ ParkIdle /\ ParkWriter

ReaderOpen == Open /\ UNCHANGED writerVars

ReaderEventsNext == EventsNext /\ UNCHANGED writerVars

NextReader == ReaderOpen \/ ReaderEventsNext

SpecReader == InitReader /\ [][NextReader]_vars

Opened == phase \in {"opened", "eof"}

\* the lines after the header that the event sequence has consumed
Consumed == SubSeq(file, 2, Len(file) - Len(reader.rest))

NonBlank(lines) == SelectSeq(lines, LAMBDA l : l[1] # "empty")

SameItem(a, b) == a.ok = b.ok /\ (a.ok => a.val = b.val)

\* C7: on the version-2 path the sequence yields one item per non-empty line
\* after the header, in line order: Ok(event) when the line decodes and Err
\* otherwise, whatever the lines before it were; empty lines yield nothing;
\* pulled to its end it has consumed every line
C7_StreamingLocality ==
    (Opened /\ reader.kind = "stream") =>
        LET nb == NonBlank(Consumed)
        IN  /\ Len(items) = Len(nb)
            /\ \A k \in 1..Len(nb) :
                  /\ nb[k][1] = "ioerror" => ~items[k].ok
                  /\ nb[k][1] # "ioerror" => SameItem(items[k], DeserializeEvent(nb[k]))
            /\ (phase = "eof" => Consumed = Tail(file))

\* an undecodable line, an empty line and a decodable line: Err, then Ok
C7_Witness ==
    /\ phase = "eof" /\ reader.kind = "stream" /\ Len(file) = 4
    /\ file[2][1] = "garbage" /\ file[3][1] = "empty" /\ file[4][1] = "array"
    /\ Len(items) = 2 /\ ~items[1].ok
    /\ items[2].ok /\ items[2].val = Event(500000, Output, "a")

\* C3: the Header that open returns for a version-2 header line carries the
\* line's width, height, timestamp, idle_time_limit, command, title and env
C3_V2HeaderLossless ==
    (Opened /\ reader.kind = "stream") =>
        LET o == file[1][2]
            h == reader.header
        IN  /\ h.version = 2
            /\ h.cols = Get(o, "width") /\ h.rows = Get(o, "height")
            /\ h.timestamp = OptTimestamp(o)
            /\ h.idle_time_limit = OptGet(o, "idle_time_limit")
            /\ h.command = OptGet(o, "command")
            /\ h.title = OptGet(o, "title")
            /\ h.env = OptGet(o, "env")

\* the file is the text of a legacy document with version 1
IsLegacyFile ==
    /\ file # <<>> /\ file[1][1] \in {"object", "part"}
    /\ HasKey(file[1][2], "stdout") /\ Get(file[1][2], "version") = 1

\* the microseconds a seconds numeral of at most six fraction digits denotes
TextMicros(text) ==
    IF HasDot(text) THEN NumeralMicros(text) ELSE DigitsToNat(text) * MICROS

LegacyDecoded ==
    LET doc == file[1][2]
        so  == Get(doc, "stdout")
    IN  /\ phase # "failed"
        /\ Opened =>
              /\ reader.header.version = 1
              /\ reader.header.cols = Get(doc, "width")
              /\ reader.header.rows = Get(doc, "height")
        /\ phase = "eof" =>
              /\ Len(items) = Len(so)
              /\ \A k \in 1..Len(so) :
                    /\ items[k].ok
                    /\ items[k].val = Event(TextMicros(so[k][1]), Output, so[k][2])

\* C2: every legacy document with version 1, however it is broken into lines,
\* opens with version 1, cols = width, rows = height and one Output event per
\* stdout entry, in order, with the entry's data and its time in microseconds
C2_LegacyDecode == IsLegacyFile => LegacyDecoded

\* what the reader does achieve: a legacy document broken into two or more
\* lines whose times all have a fraction decodes as C2 says
LegacyMultiLineDecode ==
    (/\ IsLegacyFile /\ file[1][1] = "part"
     /\ \A k \in 1..Len(Get(file[1][2], "stdout")) : HasDot(F64ToString(Get(file[1][2], "stdout")[k][1])))
        => LegacyDecoded

(***************************************************************************)
(* SpecRoundTrip: open a version-2 file, write its header and every        *)
(* decoded event through a Writer with time_offset 0, open the result.     *)
(***************************************************************************)
MaxRtLines == 2     \* lines after the header of the file copied

RoundTripLines ==
    {<<"empty">>,
     Array(<<"0", ".", "5">>, Plain(<<"o">>), "a"),
     Array(<<"1", ".", "2", "5", "0">>, Plain(<<"i">>), "b"),
     Array(<<"2", ".", "0", "0", "0", "0", "0", "0", "1">>, Plain(<<"o">>), "c"),
     Array(<<"3", ".", "0", "0", "0", "0", "0", "1">>, Plain(<<"x">>), "d"),
     Array(<<"4">>, Plain(<<"o">>), "e")}

RoundTripHeaders ==
    {<<"object", SerializeV2Header(V2Header(2, cols, 24, ts, None, None, None, None))>> :
        cols \in {80, 100}, ts \in {None, Some(1704719152)}}

InitRoundTrip ==
    /\ \E h \in RoundTripHeaders, ls \in LinesUpTo(RoundTripLines, MaxRtLines) : file = <<h>> \o ls
    /\ reader = NoReader /\ items = <<>> /\ phase = "start" /\ pass = 1
    /\ sink = <<>> /\ time_offset = 0 /\ calls = <<<<"new", 0>>>>
    /\ ParkCodec /\ ParkIdle

RtOpen == Open /\ UNCHANGED writerVars

\* the copy pulls the next item once the previous one is written; the second
\* pass only reads
RtEventsNext ==
    /\ pass = 1 => Len(WriteCalls) = Len(items) + 1
    /\ EventsNext
    /\ UNCHANGED writerVars

RtWriteHeader ==
    /\ pass = 1 /\ phase = "opened" /\ WriteCalls = <<>>
    /\ WriteHeader(reader.header)
    /\ UNCHANGED readerVars

\* write_event(event?): an Err item ends the copy
RtWriteEvent ==
    /\ pass = 1 /\ Opened /\ Len(WriteCalls) = Len(items) /\ items # <<>>
    /\ Last(items).ok
    /\ WriteEvent(Last(items).val)
    /\ UNCHANGED readerVars

\* the writer is dropped and the file it wrote is opened
RtReopen ==
    /\ pass = 1 /\ phase = "eof" /\ Len(WriteCalls) = Len(items) + 1
    /\ file' = sink
    /\ reader' = NoReader /\ items' = <<>> /\ phase' = "start" /\ pass' = 2
    /\ UNCHANGED <<writerVars, codecVars, idleVars>>

NextRoundTrip == RtOpen \/ RtEventsNext \/ RtWriteHeader \/ RtWriteEvent \/ RtReopen

SpecRoundTrip == InitRoundTrip /\ [][NextRoundTrip]_vars

\* C1: a version-2 file whose lines all decode, copied through open,
\* write_header and write_event with time_offset 0, opens again with the same
\* version, cols and rows and the same events (time, code, data, order, count)
C1_RoundTrip ==
    pass = 2 =>
        /\ phase # "failed"
        /\ Opened =>
              /\ reader.header.version = WriteCalls[1][2].version
              /\ reader.header.cols = WriteCalls[1][2].cols
              /\ reader.header.rows = WriteCalls[1][2].rows
        /\ phase = "eof" =>
              /\ Len(items) = Len(WriteCalls) - 1
              /\ \A k \in 1..Len(items) :
                    items[k].ok /\ items[k].val = WriteCalls[k + 1][2]

\* what the copy does achieve: the events whose time is not a whole number of
\* seconds come back unchanged
RoundTripFractionalTimes ==
    (pass = 2 /\ \A k \in 2..Len(WriteCalls) : WriteCalls[k][2].time % MICROS # 0) =>
        /\ phase # "failed"
        /\ phase = "eof" =>
              /\ Len(items) = Len(WriteCalls) - 1
              /\ \A k \in 1..Len(items) :
                    items[k].ok /\ items[k].val = WriteCalls[k + 1][2]

====
